---- MODULE Spec2Model ----
(***************************************************************************)
(* ImageGenerationService (src/src/image-generation-service.ts): the      *)
(* checkpointed, time-boxed batch loop run() with its two entry points     *)
(* manuallyRun() and triggeredRun().                                       *)
(*                                                                         *)
(* Durable state: the script property                                      *)
(* 'lastImageGenerationProcessedAdGroupId' (cursor), the pending           *)
(* follow-up triggers, and the number of images stored per ad group.       *)
(* One invocation is a walk of pc through the statements of run(); every   *)
(* collaborator call is one step, which either returns or throws.          *)
(* Indexes are 0-based as in the source: adGroups[k] is ItemAt(list, k).   *)
(***************************************************************************)
EXTENDS Integers, Sequences, FiniteSets

\* ---------------------------------------------------------------- bounds
\* Number of distinct ad-group ids, and so the longest ad-group list.
MaxAdGroups == 2

\* CONFIG['Number of images per Ad Group'], in the configurations where every
\* ad group may lack images.
TargetImages == 2

\* Longest keyword list getKeywordsForAdGroup returns.
MaxKeywords == 2

\* ------------------------------------------------------------- constants
MAX_TRIES == 3

\* VertexAiApi.VISION_API_LIMIT ("as for now, 4").
VISION_API_LIMIT == 4

\* A configured target above the per-call limit: batches of the full limit occur.
LargeTarget == VISION_API_LIMIT + TargetImages

\* adGroup.customer.id: the one account the service is configured for.
CustomerId == "customer"

\* CONFIG['Generated DIR'], CONFIG['Uploaded DIR'], CONFIG['Validated DIR'].
GeneratedDir == "Generated DIR"

CountedDirs == {"Generated DIR", "Uploaded DIR", "Validated DIR"}

\* getProperty's answer for a key that is not stored.
null == 0

AdGroupIds == 1..MaxAdGroups

KeywordTexts == {"red"}

ADIOS_MODES == {"AD_GROUP", "KEYWORDS"}

\* What CONFIG['Adios Mode'] may hold: the two modes, or anything else.
ConfiguredModes == ADIOS_MODES \cup {"UNKNOWN"}

\* ------------------------------------------------------------- functions
Min(a, b) == IF a < b THEN a ELSE b

Range(s) == {s[k] : k \in DOMAIN s}

RECURSIVE SeqsUpTo(_, _)
SeqsUpTo(S, n) ==
    IF n = 0 THEN {<<>>}
    ELSE LET shorter == SeqsUpTo(S, n - 1)
         IN shorter \cup {Append(s, x) : s \in {t \in shorter : Len(t) = n - 1}, x \in S}

IsInjective(s) == \A a, b \in DOMAIN s : s[a] = s[b] => a = b

\* What getAdGroups() may return: ad groups have distinct ids, in any order.
AdGroupLists == {s \in SeqsUpTo(AdGroupIds, MaxAdGroups) : IsInjective(s)}

\* What getKeywordsForAdGroup() may return (texts may repeat).
KeywordInfos == SeqsUpTo(KeywordTexts, MaxKeywords)

\* adGroups[k], k counted from 0.
ItemAt(list, k) == list[k + 1]

\* Array.prototype.findIndex on the id: first match, -1 when there is none.
FindIndex(list, id) ==
    IF \E k \in DOMAIN list : list[k] = id
    THEN (CHOOSE k \in DOMAIN list :
              list[k] = id /\ \A j \in DOMAIN list : list[j] = id => k <= j) - 1
    ELSE -1

\* Resuming after the cursor's ad group instead of at it.
StartIndexAfterCursor(list, cur) == IF cur # null THEN FindIndex(list, cur) + 1 ELSE 0

\* Lines 49-55: 0 without a cursor, else whatever findIndex answers.
StartIndex(list, cur) == IF cur # null THEN FindIndex(list, cur) ELSE 0

\* [...new Set(texts)]: first occurrences, in order.
RECURSIVE Dedupe(_)
Dedupe(s) ==
    IF s = <<>> THEN <<>>
    ELSE LET front == Dedupe(SubSeq(s, 1, Len(s) - 1))
             last == s[Len(s)]
         IN IF last \in Range(front) THEN front ELSE Append(front, last)

\* The loop's condition with < for <=: one try fewer.
LoopConditionStrict(generated, wanted, tries) == generated < wanted /\ tries < MAX_TRIES

\* Line 98: the generation loop's condition.
LoopCondition(generated, wanted, tries) == generated < wanted /\ tries <= MAX_TRIES

\* Always a full batch, whatever is still missing.
BatchSizeFull(generated, wanted) == VISION_API_LIMIT

\* Lines 99-102: the size of the next batch.
BatchSize(generated, wanted) == Min(VISION_API_LIMIT, wanted - generated)

\* ----------------------------------------------------------------- state
VARIABLES
    mode,              \* CONFIG['Adios Mode']
    target,            \* CONFIG['Number of images per Ad Group']
    cursor,            \* property lastImageGenerationProcessedAdGroupId, or null
    triggers,          \* pending follow-up triggers
    stored,            \* images in the three folders, per ad group id
    pc,                \* position in run(), or how the last invocation ended
    adGroups,          \* const adGroups
    startCursor,       \* const lastImageGenerationProcessedAdGroupId of run()
    startIndex,        \* let startIndex
    i,                 \* the for loop's i
    existingImgCount,  \* const existingImgCount
    adGroupImgCount,   \* const adGroupImgCount
    generatedImages,   \* let generatedImages
    numTries,          \* let numTries
    imgCount,          \* const imgCount
    images,            \* images.length of the last callVisionApi answer
    keywordList,       \* const keywordList
    folder,            \* const folder of the last upload: <<customer, ad group, dir>>
    excess,            \* callVisionApi answered with more images than asked for
    error,             \* what aborted the invocation, "none" if nothing has
    checked,           \* indexes shouldTerminate() was consulted for, this invocation
    counted,           \* indexes countImages() was called for, this invocation
    watchdogCalls,     \* calls of shouldTerminate(), this invocation
    schedules,         \* calls of createTriggerForNextRun(), this invocation
    textCalls,         \* callGeminiApi calls for the ad group in hand
    genCalls,          \* callVisionApi calls for the ad group in hand
    uploads,           \* uploadImage calls for the ad group in hand
    inChain,           \* the invocation started without a cursor, or follows up one
                       \* that did, on the same list
    chainCounted,      \* indexes counted by the earlier invocations of the chain
    fileNameCall,      \* the last generateImageFileName call: arguments, clock, result
    promptCall         \* the last createPrompt call: template, argument, result

config == <<mode, target>>
durable == <<cursor, triggers, stored>>
perItem == <<existingImgCount, adGroupImgCount, generatedImages, numTries,
             imgCount, images, keywordList, folder, excess>>
perItemCalls == <<textCalls, genCalls, uploads>>
perRun == <<adGroups, startCursor, startIndex>>
history == <<checked, counted, watchdogCalls, schedules>>
chain == <<inChain, chainCounted>>
pure == <<fileNameCall, promptCall>>
vars == <<mode, target, cursor, triggers, stored, pc, adGroups, startCursor,
          startIndex, i, existingImgCount, adGroupImgCount, generatedImages,
          numTries, imgCount, images, keywordList, folder, excess, error,
          checked, counted, watchdogCalls, schedules, textCalls, genCalls,
          uploads, inChain, chainCounted, fileNameCall, promptCall>>

Idle == {"idle", "done", "interrupted", "aborted"}

Running == pc \notin Idle

\* The ad group in hand.
AdGroupId == ItemAt(adGroups, i)

\* No function has been called yet.
NoCall == <<>>

\* The configured target and the images in store: every ad group anywhere up
\* to a small target, or one ad group anywhere up to a large target with the
\* others complete.
InitImages ==
    \/ /\ target = TargetImages
       /\ stored \in [AdGroupIds -> 0..TargetImages]
    \/ /\ target = LargeTarget
       /\ stored \in {s \in [AdGroupIds -> 0..LargeTarget] :
                        \A id \in AdGroupIds : id # 1 => s[id] = LargeTarget}

Init ==
    /\ mode \in ConfiguredModes
    /\ InitImages
    /\ cursor = null
    /\ triggers = 0
    /\ folder = <<>>
    /\ excess = FALSE
    /\ inChain = FALSE
    /\ chainCounted = {}
    /\ fileNameCall = NoCall
    /\ promptCall = NoCall
    /\ pc = "idle"
    /\ adGroups = <<>>
    /\ startCursor = null
    /\ startIndex = 0
    /\ i = 0
    /\ existingImgCount = 0
    /\ adGroupImgCount = 0
    /\ generatedImages = 0
    /\ numTries = 0
    /\ imgCount = 0
    /\ images = 0
    /\ keywordList = <<>>
    /\ error = "none"
    /\ checked = {}
    /\ counted = {}
    /\ watchdogCalls = 0
    /\ schedules = 0
    /\ textCalls = 0
    /\ genCalls = 0
    /\ uploads = 0

\* ------------------------------------------------------------ Triggerable
\* deleteTrigger(): no trigger of this service is left pending.
deleteTrigger == triggers' = 0

\* createTriggerForNextRun(): one more follow-up trigger is pending.
createTriggerForNextRun == triggers' = triggers + 1

\* ------------------------------------------------------------------ run()
\* run() is left: the locals of the ad group in hand are gone with its frame,
\* and no ad group is in hand any more.
LeaveAdGroup ==
    /\ existingImgCount' = 0
    /\ adGroupImgCount' = 0
    /\ generatedImages' = 0
    /\ numTries' = 0
    /\ imgCount' = 0
    /\ images' = 0
    /\ keywordList' = <<>>
    /\ folder' = <<>>
    /\ excess' = FALSE
    /\ textCalls' = 0
    /\ genCalls' = 0
    /\ uploads' = 0

\* One pass of the while body is over (its end, or a continue): the constants
\* declared in the body are gone.
EndIteration ==
    /\ imgCount' = 0
    /\ images' = 0
    /\ keywordList' = <<>>
    /\ folder' = <<>>

\* An exception leaves run(): nothing after the throwing call executes.
Throw(what) ==
    /\ pc' = "aborted"
    /\ error' = what
    /\ LeaveAdGroup

\* run() on cur and list is the follow-up of an interrupted invocation of a
\* chain, on the list that invocation had.
FollowsUp(cur, list) ==
    pc = "interrupted" /\ inChain /\ triggers > 0 /\ cur # null /\ list = adGroups

\* Lines 43-56, with the property store holding cur: the trigger is deleted,
\* the list fetched, the start index computed and the for loop entered.
RunFrom(cur, list) ==
    /\ deleteTrigger
    /\ adGroups' = list
    /\ startCursor' = cur
    /\ startIndex' = StartIndex(list, cur)
    /\ i' = StartIndex(list, cur)
    /\ pc' = "forHead"
    /\ error' = "none"
    /\ checked' = {}
    /\ counted' = {}
    /\ watchdogCalls' = 0
    /\ schedules' = 0
    /\ inChain' = (cur = null \/ FollowsUp(cur, list))
    /\ chainCounted' = IF FollowsUp(cur, list) THEN chainCounted \cup counted ELSE {}
    /\ UNCHANGED <<config, pure, stored, perItem, perItemCalls>>

\* manuallyRun without its deleteProperty.
manuallyRunKeepsCursor ==
    /\ pc \in Idle
    /\ cursor' = cursor
    /\ \E list \in AdGroupLists : RunFrom(cursor, list)

\* Lines 275-292: the cursor is cleared, then run().
manuallyRun ==
    /\ pc \in Idle
    /\ cursor' = null
    /\ \E list \in AdGroupLists : RunFrom(null, list)

\* Lines 266-273: run() on the property store as it is.
triggeredRun ==
    /\ pc \in Idle
    /\ cursor' = cursor
    /\ \E list \in AdGroupLists : RunFrom(cursor, list)

\* Line 44 throws: the trigger is already deleted, nothing else has happened.
GetAdGroupsFails ==
    /\ pc \in Idle
    /\ cursor' \in {null, cursor}
    /\ deleteTrigger
    /\ Throw("getAdGroups")
    /\ startCursor' = null
    /\ startIndex' = 0
    /\ i' = 0
    /\ adGroups' = <<>>
    /\ checked' = {}
    /\ counted' = {}
    /\ watchdogCalls' = 0
    /\ schedules' = 0
    /\ inChain' = FALSE
    /\ chainCounted' = {}
    /\ UNCHANGED <<config, pure, stored>>

\* Lines 56-60 with i < adGroups.length but adGroups[i] undefined (i = -1):
\* shouldTerminate() is consulted, and both of its branches read
\* adGroup.adGroup.name first, which throws a TypeError.
UndefinedAdGroup ==
    /\ pc = "forHead"
    /\ i < Len(adGroups)
    /\ i < 0
    /\ watchdogCalls' = watchdogCalls + 1
    /\ checked' = checked \cup {i}
    /\ Throw("TypeError")
    /\ UNCHANGED <<config, pure, chain, durable, perRun, i, counted, schedules>>

\* The watchdog branch without its createTriggerForNextRun().
TerminateWithoutTrigger ==
    /\ pc = "forHead"
    /\ 0 <= i /\ i < Len(adGroups)
    /\ watchdogCalls' = watchdogCalls + 1
    /\ checked' = checked \cup {i}
    /\ cursor' = AdGroupId
    /\ pc' = "interrupted"
    /\ LeaveAdGroup
    /\ UNCHANGED <<config, pure, chain, triggers, stored, perRun, i, error, counted, schedules>>

\* The watchdog branch without its setProperty().
TerminateWithoutCursor ==
    /\ pc = "forHead"
    /\ 0 <= i /\ i < Len(adGroups)
    /\ watchdogCalls' = watchdogCalls + 1
    /\ checked' = checked \cup {i}
    /\ createTriggerForNextRun
    /\ schedules' = schedules + 1
    /\ pc' = "interrupted"
    /\ LeaveAdGroup
    /\ UNCHANGED <<config, pure, chain, cursor, stored, perRun, i, error, counted>>

\* Lines 58-68: the watchdog fires before ad group i.
Terminate ==
    /\ pc = "forHead"
    /\ 0 <= i /\ i < Len(adGroups)
    /\ watchdogCalls' = watchdogCalls + 1
    /\ checked' = checked \cup {i}
    /\ cursor' = AdGroupId
    /\ createTriggerForNextRun
    /\ schedules' = schedules + 1
    /\ pc' = "interrupted"
    /\ LeaveAdGroup
    /\ UNCHANGED <<config, pure, chain, stored, perRun, i, error, counted>>

\* The cursor written when an ad group is started instead of when it is done.
BeginAdGroupSavesCursor ==
    /\ pc = "forHead"
    /\ 0 <= i /\ i < Len(adGroups)
    /\ watchdogCalls' = watchdogCalls + 1
    /\ checked' = checked \cup {i}
    /\ cursor' = AdGroupId
    /\ generatedImages' = 0
    /\ numTries' = 0
    /\ textCalls' = 0
    /\ genCalls' = 0
    /\ uploads' = 0
    /\ excess' = FALSE
    /\ pc' = "count"
    /\ UNCHANGED <<config, pure, chain, triggers, stored, perRun, i, existingImgCount,
                   adGroupImgCount, imgCount, images, keywordList, folder, error, counted,
                   schedules>>

\* Lines 58, 69-73: the watchdog lets ad group i start.
BeginAdGroup ==
    /\ pc = "forHead"
    /\ 0 <= i /\ i < Len(adGroups)
    /\ watchdogCalls' = watchdogCalls + 1
    /\ checked' = checked \cup {i}
    /\ generatedImages' = 0
    /\ numTries' = 0
    /\ textCalls' = 0
    /\ genCalls' = 0
    /\ uploads' = 0
    /\ excess' = FALSE
    /\ pc' = "count"
    /\ UNCHANGED <<config, pure, chain, durable, perRun, i, existingImgCount, adGroupImgCount,
                   imgCount, images, keywordList, folder, error, counted, schedules>>

\* Lines 75-89: the ad group has enough images: continue the for loop.
SkipAdGroup ==
    /\ pc = "count"
    /\ stored[AdGroupId] >= target
    /\ existingImgCount' = stored[AdGroupId]
    /\ counted' = counted \cup {i}
    /\ i' = i + 1
    /\ pc' = "forHead"
    /\ UNCHANGED <<config, pure, chain, durable, perRun, adGroupImgCount, generatedImages,
                   numTries, imgCount, images, keywordList, folder, excess, perItemCalls, error,
                   checked, watchdogCalls, schedules>>

\* Lines 75-95: the ad group lacks images: its deficit is computed.
NeedImages ==
    /\ pc = "count"
    /\ stored[AdGroupId] < target
    /\ existingImgCount' = stored[AdGroupId]
    /\ adGroupImgCount' = target - stored[AdGroupId]
    /\ counted' = counted \cup {i}
    /\ pc' = "while"
    /\ UNCHANGED <<config, pure, chain, durable, perRun, i, generatedImages, numTries,
                   imgCount, images, keywordList, folder, excess, perItemCalls, error, checked,
                   watchdogCalls, schedules>>

\* Line 75 throws.
CountImagesFails ==
    /\ pc = "count"
    /\ counted' = counted \cup {i}
    /\ Throw("countImages")
    /\ UNCHANGED <<config, pure, chain, durable, perRun, i, checked, watchdogCalls, schedules>>

\* Lines 98-107, 154: one more batch; the mode decides the first call.
NextBatch ==
    /\ pc = "while"
    /\ LoopCondition(generatedImages, adGroupImgCount, numTries)
    /\ imgCount' = BatchSize(generatedImages, adGroupImgCount)
    /\ pc' = CASE mode = "AD_GROUP" -> "vision"
               [] mode = "KEYWORDS" -> "keywords"
               [] OTHER -> "gemini"
    /\ UNCHANGED <<config, pure, chain, durable, perRun, i, existingImgCount, adGroupImgCount,
                   generatedImages, numTries, images, keywordList, folder, excess, perItemCalls,
                   error, history>>

\* Lines 98, 202-206: the loop is over; the ad group becomes the cursor.
AdGroupDone ==
    /\ pc = "while"
    /\ ~LoopCondition(generatedImages, adGroupImgCount, numTries)
    /\ cursor' = AdGroupId
    /\ i' = i + 1
    /\ pc' = "forHead"
    /\ UNCHANGED <<config, pure, chain, triggers, stored, perRun, perItem, perItemCalls, error,
                   history>>

\* Lines 126-146: the keywords are fetched and deduplicated; with none, the
\* continue statement goes back to the while loop's condition.
GetKeywords ==
    /\ pc = "keywords"
    /\ \E keywordInfo \in KeywordInfos :
          IF Len(Dedupe(keywordInfo)) = 0
          THEN /\ EndIteration
               /\ pc' = "while"
          ELSE /\ keywordList' = Dedupe(keywordInfo)
               /\ pc' = "gemini"
               /\ UNCHANGED <<imgCount, images, folder>>
    /\ UNCHANGED <<config, pure, chain, durable, perRun, i, existingImgCount,
                   adGroupImgCount, generatedImages, numTries, excess,
                   perItemCalls, error, history>>

\* Line 126 throws.
GetKeywordsFails ==
    /\ pc = "keywords"
    /\ Throw("getKeywordsForAdGroup")
    /\ UNCHANGED <<config, pure, chain, durable, perRun, i, history>>

\* Lines 156-166: the prompt is generated by callGeminiApi.
CallGemini ==
    /\ pc = "gemini"
    /\ textCalls' = textCalls + 1
    /\ pc' = "vision"
    /\ UNCHANGED <<config, pure, chain, durable, perRun, i, perItem, genCalls, uploads, error,
                   history>>

\* Line 165 throws.
CallGeminiFails ==
    /\ pc = "gemini"
    /\ Throw("callGeminiApi")
    /\ UNCHANGED <<config, pure, chain, durable, perRun, i, history>>

\* Lines 175-184: callVisionApi answers with no image: one more try is used.
VisionEmpty ==
    /\ pc = "vision"
    /\ genCalls' = genCalls + 1
    /\ numTries' = numTries + 1
    /\ EndIteration
    /\ pc' = "while"
    /\ UNCHANGED <<config, pure, chain, durable, perRun, i, existingImgCount,
                   adGroupImgCount, generatedImages, excess, textCalls, uploads,
                   error, history>>

\* The images filed under the validated images instead of the generated ones.
FolderValidated(id) == <<CustomerId, id, "Validated DIR">>

\* Line 190: the folder the images of an ad group are uploaded to.
Folder(id) == <<CustomerId, id, GeneratedDir>>

\* n uploads into folder f, as countImages sees them afterwards.
StoreIn(f, n) ==
    IF f[3] \in CountedDirs THEN [stored EXCEPT ![f[2]] = @ + n] ELSE stored

\* Lines 175-190: callVisionApi answers with images, at most one more than
\* the imgCount asked for; they go to the ad group's folder.
VisionImages ==
    /\ pc = "vision"
    /\ genCalls' = genCalls + 1
    /\ \E n \in 1..(imgCount + 1) :
          /\ images' = n
          /\ excess' = (excess \/ n > imgCount)
    /\ folder' = Folder(AdGroupId)
    /\ pc' = "upload"
    /\ UNCHANGED <<config, pure, chain, durable, perRun, i, existingImgCount,
                   adGroupImgCount, generatedImages, numTries, imgCount,
                   keywordList, textCalls, uploads, error, history>>

\* Line 175 throws.
CallVisionFails ==
    /\ pc = "vision"
    /\ Throw("callVisionApi")
    /\ UNCHANGED <<config, pure, chain, durable, perRun, i, history>>

\* A batch with images starting the count of empty answers afresh.
UploadImagesResetsTries ==
    /\ pc = "upload"
    /\ stored' = StoreIn(folder, images)
    /\ uploads' = uploads + images
    /\ generatedImages' = generatedImages + images
    /\ numTries' = 0
    /\ EndIteration
    /\ pc' = "while"
    /\ UNCHANGED <<config, pure, chain, cursor, triggers, perRun, i,
                   existingImgCount, adGroupImgCount, excess, textCalls,
                   genCalls, error, history>>

\* Lines 185-200: every image of the batch is uploaded and counted.
UploadImages ==
    /\ pc = "upload"
    /\ stored' = StoreIn(folder, images)
    /\ uploads' = uploads + images
    /\ generatedImages' = generatedImages + images
    /\ EndIteration
    /\ pc' = "while"
    /\ UNCHANGED <<config, pure, chain, cursor, triggers, perRun, i,
                   existingImgCount, adGroupImgCount, numTries, excess, textCalls,
                   genCalls, error, history>>

\* Line 196 throws at one image of the batch: those before it are stored.
UploadFails ==
    /\ pc = "upload"
    /\ \E before \in 0..(images - 1) :
          stored' = StoreIn(folder, before)
    /\ Throw("uploadImage")
    /\ UNCHANGED <<config, pure, chain, cursor, triggers, perRun, i, history>>

\* The end of run() without its deleteProperty().
FinishKeepsCursor ==
    /\ pc = "forHead"
    /\ ~(i < Len(adGroups))
    /\ deleteTrigger
    /\ pc' = "done"
    /\ LeaveAdGroup
    /\ UNCHANGED <<config, pure, chain, cursor, stored, perRun, i, error, history>>

\* Lines 56, 207-211: the for loop is over: cursor and trigger are deleted.
Finish ==
    /\ pc = "forHead"
    /\ ~(i < Len(adGroups))
    /\ cursor' = null
    /\ deleteTrigger
    /\ pc' = "done"
    /\ LeaveAdGroup
    /\ UNCHANGED <<config, pure, chain, stored, perRun, i, error, history>>

Next ==
    \/ manuallyRun
    \/ triggeredRun
    \/ GetAdGroupsFails
    \/ UndefinedAdGroup
    \/ Terminate
    \/ BeginAdGroup
    \/ SkipAdGroup
    \/ NeedImages
    \/ CountImagesFails
    \/ NextBatch
    \/ AdGroupDone
    \/ GetKeywords
    \/ GetKeywordsFails
    \/ CallGemini
    \/ CallGeminiFails
    \/ VisionEmpty
    \/ VisionImages
    \/ CallVisionFails
    \/ UploadImages
    \/ UploadFails
    \/ Finish

Spec == Init /\ [][Next]_vars

\* ---------------------------------------------------------------- claims
\* The ad group run() has just moved past (pc is at the for loop's head).
PrevAdGroupId == ItemAt(adGroups, i - 1)

\* run() has just moved past an ad group it counted in this invocation.
MovedPast == pc = "forHead" /\ (i - 1) \in counted

\* Errors thrown by a collaborator call made for the ad group in hand.
AdGroupErrors == {"countImages", "getKeywordsForAdGroup", "callGeminiApi",
                  "callVisionApi", "uploadImage"}

\* C1: an ad group whose existing image count is >= the target gets no
\* image-generation and no upload call, and its id is the persisted cursor
\* once run() has moved past it.
C1_SkippedBecomesCursor ==
    (MovedPast /\ existingImgCount >= target)
        => (genCalls = 0 /\ uploads = 0 /\ cursor = PrevAdGroupId)

\* C2: started with a cursor whose id is not in the fetched list, run()
\* restarts from the first item: start index 0, no index outside the list,
\* no abort on an undefined ad group.
C2_MissingCursorRestarts ==
    (startCursor # null /\ startCursor \notin Range(adGroups))
        => (startIndex = 0 /\ i >= 0 /\ error # "TypeError")

\* C3: in KEYWORDS mode a keyword fetch that finds no keyword abandons the
\* ad group: the next position of run() is the for loop's head with the
\* next ad group.
C3_NoKeywordsMovesOn ==
    [][(pc = "keywords" /\ pc' # "aborted" /\ keywordList' = <<>>)
          => (pc' = "forHead" /\ i' = i + 1)]_vars

\* C4: started with a cursor whose id is in the fetched list, run() consults
\* the watchdog and counts images first for the ad group with that id: no
\* earlier index is touched, and that index is not skipped.
C4_ResumesAtCursor ==
    (startCursor # null /\ startCursor \in Range(adGroups))
        => LET k == FindIndex(adGroups, startCursor)
           IN /\ startIndex = k
              /\ ItemAt(adGroups, k) = startCursor
              /\ \A j \in checked \cup counted : j >= k
              /\ counted \subseteq checked
              /\ (pc # "forHead" \/ i # k) => k \in checked
              /\ counted # {} => k \in counted

C4_Witness ==
    /\ startCursor # null
    /\ startCursor \in Range(adGroups)
    /\ FindIndex(adGroups, startCursor) >= 1
    /\ FindIndex(adGroups, startCursor) \in counted

\* C5: a watchdog interruption before ad group i persists i's id as the
\* cursor, schedules exactly one follow-up trigger and returns, with no
\* count query for i or a later ad group; the watchdog is consulted once per
\* for-loop iteration, before the ad group is started, and nowhere else.
C5_WatchdogInterrupts ==
    /\ pc = "interrupted" =>
          /\ 0 <= i /\ i < Len(adGroups)
          /\ cursor = AdGroupId
          /\ schedules = 1
          /\ triggers = 1
          /\ i \in checked
          /\ \A j \in counted : j < i
          /\ genCalls = 0 /\ uploads = 0
    /\ watchdogCalls = Cardinality(checked)
    /\ counted \subseteq checked
    /\ Cardinality(checked) <= Cardinality(counted) + 1
    /\ (Running /\ pc # "forHead") => Cardinality(checked) = Cardinality(counted \cup {i})

C5_Witness ==
    /\ pc = "interrupted"
    /\ i >= 1
    /\ (i - 1) \in counted
    /\ startCursor # cursor

\* C6: when every image-generation call for an ad group returns nothing,
\* exactly 4 calls are made; the ad group is then left without an error,
\* its deficit unmet, its id persisted as the cursor, and run() is at the
\* next ad group.
C6_RetryCap ==
    /\ (numTries > 3 /\ generatedImages = 0)
          => (pc \in {"while", "forHead"} /\ numTries = 4 /\ genCalls = 4)
    /\ (MovedPast /\ existingImgCount < target /\ generatedImages = 0)
          => /\ genCalls = 4
             /\ numTries = 4
             /\ uploads = 0
             /\ stored[PrevAdGroupId] = existingImgCount
             /\ cursor = PrevAdGroupId
             /\ error = "none"

C6_Witness ==
    /\ MovedPast
    /\ existingImgCount < target
    /\ generatedImages = 0
    /\ genCalls = 4
    /\ i < Len(adGroups)

\* C7: an invocation that gets past the last ad group ends with the cursor
\* deleted and no follow-up trigger pending or scheduled.
C7_CompletionClears ==
    pc = "done" => (cursor = null /\ triggers = 0 /\ schedules = 0)

C7_Witness ==
    /\ pc = "done"
    /\ startCursor # null
    /\ counted # {}

\* C8: a run that finds no cursor starts at index 0; manuallyRun() deletes
\* the cursor before run() reads it; triggeredRun() leaves it as found.
C8_FreshStartAtZero ==
    [][/\ manuallyRun => (cursor' = null /\ startCursor' = null /\ i' = 0)
       /\ triggeredRun => (cursor' = cursor /\ startCursor' = cursor)
       /\ (pc \in Idle /\ pc' = "forHead" /\ startCursor' = null)
             => (startIndex' = 0 /\ i' = 0)
       /\ (startCursor' = null /\ checked' # {}) => 0 \in checked']_vars

C8_Witness ==
    /\ startCursor = null
    /\ 0 \in counted
    /\ Len(adGroups) = MaxAdGroups
    /\ pc = "while"

\* C9 as stated: between invocations, a cursor is present only after an
\* interrupted invocation, and absent only before the first invocation or
\* after one that processed the list to completion.
C9_CursorIffInterrupted ==
    pc \in Idle =>
        /\ cursor # null => pc \in {"interrupted", "aborted"}
        /\ cursor = null => pc \in {"idle", "done"}

\* C9 amended: between invocations there is at most one cursor value; a
\* cursor is present only after an invocation that did not finish the list
\* (watchdog or exception); it is absent before the first invocation, after
\* a completed invocation, or after an invocation aborted by an exception,
\* and never after a watchdog interruption.
C9_CursorBetweenInvocations ==
    /\ cursor \in AdGroupIds \cup {null}
    /\ pc \in Idle =>
          /\ cursor # null => pc \in {"interrupted", "aborted"}
          /\ cursor = null => pc \in {"idle", "done", "aborted"}

C9_Witness ==
    /\ pc = "aborted"
    /\ cursor = null
    /\ error \in AdGroupErrors
    /\ startIndex = 0
    /\ i = 0

\* C10: a collaborator call that throws while ad group i is in hand aborts
\* the invocation and leaves the cursor as it was, which is i's id only if
\* the invocation started with it; the next invocation on the same list
\* starts at an index of the list that is <= i.
C10_FailureRedoesAdGroup ==
    [][/\ (Running /\ pc' = "aborted" /\ error' \in AdGroupErrors)
             => /\ cursor' = cursor
                /\ i' = i /\ 0 <= i /\ i < Len(adGroups)
                /\ cursor' = AdGroupId => startCursor = AdGroupId
       /\ (pc = "aborted" /\ error \in AdGroupErrors /\ pc' = "forHead"
              /\ adGroups' = adGroups)
             => (0 <= startIndex' /\ startIndex' <= i /\ i' = startIndex')]_vars

C10_Witness ==
    /\ pc = "aborted"
    /\ error = "uploadImage"
    /\ i >= 1
    /\ cursor = ItemAt(adGroups, i)

\* run() has just moved past an ad group that lacked images.
FilledPast == MovedPast /\ existingImgCount < target

\* C11: in AD_GROUP mode, an ad group with deficit d > 0 whose every
\* image-generation call returned at least 1 and at most the requested number
\* of images has had exactly d images uploaded when run() moves past it, all
\* to the folder customer id / ad group id / generated dir, which fills it up
\* to the target; an invocation that completes leaves no cursor.
C11_DeficitFilled ==
    /\ (mode = "AD_GROUP" /\ FilledPast /\ numTries = 0 /\ ~excess)
          => /\ uploads = adGroupImgCount
             /\ adGroupImgCount = target - existingImgCount
             /\ stored[PrevAdGroupId] = target
    /\ pc = "upload" => folder = <<CustomerId, AdGroupId, GeneratedDir>>
    /\ pc = "done" => cursor = null

C11_Witness ==
    /\ mode = "AD_GROUP"
    /\ FilledPast
    /\ numTries = 0
    /\ ~excess
    /\ uploads = adGroupImgCount
    /\ adGroupImgCount > VISION_API_LIMIT
    /\ genCalls > 2

\* run() is inside the generation loop of an ad group.
InLoop == pc \in {"while", "keywords", "gemini", "vision", "upload"}

\* run() is inside one iteration of the generation loop.
InBatch == pc \in {"keywords", "gemini", "vision", "upload"}

\* C14: every image-generation request of an ad group asks for
\* min(VISION_API_LIMIT, deficit - produced so far) images, which is at least
\* 1; the produced counter is the number of images returned and uploaded so
\* far; and as long as no answer held more images than asked for, the uploads
\* of the ad group do not exceed its deficit.
C14_BatchWithinDeficit ==
    /\ InBatch => /\ imgCount = Min(VISION_API_LIMIT, adGroupImgCount - generatedImages)
                  /\ imgCount >= 1
    /\ (InLoop \/ FilledPast) => uploads = generatedImages
    /\ ((InLoop \/ FilledPast) /\ ~excess)
          => /\ uploads <= adGroupImgCount
             /\ adGroupImgCount = target - existingImgCount
    /\ (InLoop /\ ~excess) => stored[AdGroupId] <= target

C14_Witness ==
    /\ pc = "upload"
    /\ ~excess
    /\ generatedImages = VISION_API_LIMIT
    /\ imgCount < VISION_API_LIMIT
    /\ images = imgCount
    /\ adGroupImgCount > VISION_API_LIMIT

\* C15: with a mode that is neither AD_GROUP nor KEYWORDS, run() derives no
\* prompt for the ad group: the text-generation collaborator is not called.
C15_UnknownModeOnlyLogs ==
    mode \notin ADIOS_MODES => (pc # "gemini" /\ textCalls = 0)

\* C18: when run() has returned normally, the cursor is stored if and only if
\* a follow-up trigger is pending: both after a watchdog interruption, neither
\* after completion.
C18_CursorIffTrigger ==
    /\ pc \in {"done", "interrupted"} => (cursor # null <=> triggers > 0)
    /\ pc = "interrupted" => (cursor # null /\ triggers > 0)
    /\ pc = "done" => (cursor = null /\ triggers = 0)

C18_Witness ==
    /\ pc = "interrupted"
    /\ startCursor # null
    /\ cursor # null
    /\ cursor # startCursor
    /\ triggers > 0

\* C19: the count of empty answers of an ad group is cumulative: in AD_GROUP
\* mode, when no answer held more images than asked for, the generation loop
\* of an ad group with deficit d sees at most MAX_TRIES + 1 empty answers and
\* makes at most d + MAX_TRIES image-generation calls, and every call is
\* either one of the empty answers or brings at least one image.
C19_EmptyAnswersCumulative ==
    (mode = "AD_GROUP" /\ (InLoop \/ FilledPast) /\ ~excess)
        => /\ numTries <= MAX_TRIES + 1
           /\ genCalls <= adGroupImgCount + MAX_TRIES
           /\ numTries <= genCalls
           /\ generatedImages > 0 => genCalls > numTries
           /\ pc # "upload" => genCalls - numTries <= generatedImages

C19_Witness ==
    /\ mode = "AD_GROUP"
    /\ FilledPast
    /\ ~excess
    /\ numTries = MAX_TRIES + 1
    /\ genCalls = adGroupImgCount + MAX_TRIES
    /\ generatedImages > 0

\* The indexes of the ad groups of the list.
Indexes(list) == 0..(Len(list) - 1)

\* C16: in a chain of invocations on a stable ad-group list that starts with
\* no cursor and continues with the follow-up each interruption schedules,
\* when an invocation completes and deletes the cursor every ad group of the
\* list has been count-checked in some invocation of the chain, and a
\* follow-up never starts at a lower index than the invocation it follows.
C16_ChainCoversList ==
    [][/\ (inChain' /\ pc' = "done")
             => Indexes(adGroups') \subseteq (chainCounted' \cup counted')
       /\ (pc = "interrupted" /\ inChain /\ inChain' /\ pc' = "forHead"
              /\ startCursor' # null)
             => /\ adGroups' = adGroups
                /\ startIndex' >= startIndex
                /\ startIndex' = i]_vars

C16_Witness ==
    /\ pc = "done"
    /\ inChain
    /\ startIndex > 0
    /\ chainCounted # {}
    /\ chainCounted # Indexes(adGroups)
    /\ Len(adGroups) = MaxAdGroups

\* ------------------------------------------------------- the resume chain
\* AD_GROUP mode, a stable ad-group list, no failing collaborator, every
\* scheduled follow-up fires, and the watchdog lets the first ad group of an
\* invocation through.
ChainInit == Init /\ mode = "AD_GROUP"

\* Lines 275-292: a chain is started by hand.
StartChain ==
    /\ pc \in {"idle", "done"}
    /\ manuallyRun

\* Lines 266-273: the pending trigger fires; getAdGroups() answers as before.
FollowUp ==
    /\ pc = "interrupted"
    /\ triggers > 0
    /\ cursor' = cursor
    /\ RunFrom(cursor, adGroups)

\* Lines 58-68: the watchdog fires after the invocation's first ad group.
PatientTerminate ==
    /\ i > startIndex
    /\ Terminate

\* The steps of a running invocation.
Proceed ==
    \/ PatientTerminate
    \/ BeginAdGroup
    \/ SkipAdGroup
    \/ NeedImages
    \/ NextBatch
    \/ AdGroupDone
    \/ VisionEmpty
    \/ VisionImages
    \/ UploadImages
    \/ Finish

ChainNext ==
    \/ StartChain
    \/ FollowUp
    \/ Proceed

ChainSpec ==
    /\ ChainInit
    /\ [][ChainNext]_vars
    /\ WF_vars(FollowUp)
    /\ WF_vars(Proceed)

\* C17: with a stable ad-group list, AD_GROUP mode, no collaborator failure,
\* every scheduled follow-up firing and the watchdog not firing before the
\* first ad group of an invocation, a started chain of invocations eventually
\* completes: the cursor is absent and no follow-up trigger is pending.
C17_ChainCompletes ==
    (Running \/ pc = "interrupted") ~> (pc = "done" /\ cursor = null /\ triggers = 0)

C17_Witness ==
    /\ pc = "done"
    /\ cursor = null
    /\ triggers = 0
    /\ inChain
    /\ startCursor # null
    /\ startIndex = Len(adGroups) - 1
    /\ Len(adGroups) = MaxAdGroups

\* ------------------------------------------------------ the pure functions
\* Strings are sequences of one-character strings.
MaxAffix == 2
MaxPieces == 2
MaxValueLen == 2

\* Line 231.
fileNameLimit == 128

\* Line 234: the | characters added to the final string.
extraChars == 2

\* c repeated n times.
Repeat(c, n) == [k \in 1..n |-> c]

\* The sequences of a sequence of sequences, one after the other.
RECURSIVE Flatten(_)
Flatten(ss) == IF ss = <<>> THEN <<>> ELSE Head(ss) \o Flatten(Tail(ss))

Max(a, b) == IF a >= b THEN a ELSE b

DigitChars == <<"0", "1", "2", "3", "4", "5", "6", "7", "8", "9">>

\* Number.prototype.toString() of a natural number: its decimal digits.
RECURSIVE Decimal(_)
Decimal(n) ==
    IF n < 10 THEN <<DigitChars[n + 1]>>
    ELSE Append(Decimal(n \div 10), DigitChars[(n % 10) + 1])

\* A reading of Date.now() is kept in two parts, hi * TimeUnit + lo
\* milliseconds, each within the range of the integers of the checker.
TimeUnit == 10000000

\* Date.now().toString(): the digits of hi, then lo on as many digits as
\* TimeUnit has zeros.
TimeString(t) ==
    IF t.hi = 0 THEN Decimal(t.lo)
    ELSE LET low == Decimal(t.lo)
             width == Len(Decimal(TimeUnit)) - 1
         IN Decimal(t.hi) \o Repeat("0", width - Len(low)) \o low

\* The clock one millisecond later.
Tick(t) ==
    IF t.lo + 1 = TimeUnit THEN [hi |-> t.hi + 1, lo |-> 0]
    ELSE [hi |-> t.hi, lo |-> t.lo + 1]

\* Readings of Date.now(): one of November 2025, and the last two
\* milliseconds that take thirteen digits.
Times ==
    {[hi |-> 176215, lo |-> 2000000],
     [hi |-> 999999, lo |-> 9999998],
     [hi |-> 999999, lo |-> 9999999]}

\* Ad group ids and names generateImageFileName is applied to: the names are
\* a run of letters between two short ends that may hold slashes, short and
\* around the length where the trimming starts.
FileNameIds == {7, 42, 1234567890}
NameChars == {"a", "/"}
NameRuns == {0} \cup ((fileNameLimit - 20)..(fileNameLimit - 14)) \cup {fileNameLimit}
Names ==
    {front \o Repeat("a", run) \o back :
        front \in SeqsUpTo(NameChars, MaxAffix),
        run \in NameRuns,
        back \in SeqsUpTo(NameChars, MaxAffix)}

\* String.prototype.replaceAll('/', '').
StripSlashes(str) == SelectSeq(str, LAMBDA c : c # "/")

\* String.prototype.slice(0, end): a negative end counts from the end.
Slice(str, end) ==
    LET to == IF end < 0 THEN Max(Len(str) + end, 0) ELSE Min(end, Len(str))
    IN SubSeq(str, 1, to)

\* Lines 225-239, with the two readings of Date.now() it makes.
generateImageFileName(adGroupId, adGroupName, firstNow, secondNow) ==
    LET stripped == StripSlashes(adGroupName)
        now == TimeString(firstNow)
        adGroupNameLimit ==
            fileNameLimit - Len(now) - Len(Decimal(adGroupId)) - extraChars
        trimmedAdGroupName == Slice(stripped, adGroupNameLimit)
    IN Decimal(adGroupId) \o <<"|">> \o trimmedAdGroupName \o <<"|">>
           \o TimeString(secondNow)

\* '${' + key + '}'.
Placeholder(key) == <<"$", "{", key, "}">>

\* The search string occurs in str at position p (counted from 1).
MatchesAt(str, searchString, p) ==
    /\ p + Len(searchString) - 1 <= Len(str)
    /\ SubSeq(str, p, p + Len(searchString) - 1) = searchString

\* GetSubstitution of ECMAScript for a string pattern (no captures), from
\* position k of the replacement: $$ is a dollar sign, $& the matched text,
\* $` what precedes the match in str, $' what follows it; anything else is
\* taken as it is.
RECURSIVE GetSubstitution(_, _, _, _, _)
GetSubstitution(matched, str, p, replacement, k) ==
    IF k > Len(replacement) THEN <<>>
    ELSE IF replacement[k] = "$" /\ k < Len(replacement)
              /\ replacement[k + 1] \in {"$", "&", "`", "'"}
         THEN (CASE replacement[k + 1] = "$" -> <<"$">>
                 [] replacement[k + 1] = "&" -> matched
                 [] replacement[k + 1] = "`" -> SubSeq(str, 1, p - 1)
                 [] replacement[k + 1] = "'" ->
                        SubSeq(str, p + Len(matched), Len(str)))
                  \o GetSubstitution(matched, str, p, replacement, k + 2)
         ELSE <<replacement[k]>>
                  \o GetSubstitution(matched, str, p, replacement, k + 1)

\* String.prototype.replaceAll(searchString, replaceValue) with two strings,
\* from position p of str: the matches are taken from left to right without
\* overlap, and what has been put in is not searched again.
RECURSIVE ReplaceAllFrom(_, _, _, _)
ReplaceAllFrom(str, searchString, replaceValue, p) ==
    IF p > Len(str) THEN <<>>
    ELSE IF MatchesAt(str, searchString, p)
         THEN GetSubstitution(searchString, str, p, replaceValue, 1)
                  \o ReplaceAllFrom(str, searchString, replaceValue,
                                    p + Len(searchString))
         ELSE <<str[p]>> \o ReplaceAllFrom(str, searchString, replaceValue, p + 1)

ReplaceAll(str, searchString, replaceValue) ==
    ReplaceAllFrom(str, searchString, replaceValue, 1)

\* Lines 258-264: obj is the sequence of its entries <<key, value>>, in the
\* order of Object.entries; prompt starts as CONFIG['ImgGen Prompt'].
RECURSIVE createPrompt(_, _)
createPrompt(prompt, obj) ==
    IF obj = <<>> THEN prompt
    ELSE createPrompt(ReplaceAll(prompt, Placeholder(obj[1][1]), obj[1][2]), Tail(obj))

\* Templates, keys and values createPrompt is applied to.
PromptKeys == {"c", "z"}
ValueChars == {"$", "&", "'", "L"}
Pieces == {<<"A">>} \cup {Placeholder(key) : key \in PromptKeys}
Prompts == {Flatten(pieces) : pieces \in SeqsUpTo(Pieces, MaxPieces)}
Values == SeqsUpTo(ValueChars, MaxValueLen)
KeyPairs == {pair \in PromptKeys \X PromptKeys : pair[1] # pair[2]}
Objects ==
    {<<>>}
        \cup {<<<<key, value>>>> : key \in PromptKeys, value \in Values}
        \cup {<<<<pair[1], value>>, <<pair[2], <<"L">>>>>> :
                 pair \in KeyPairs, value \in Values}
        \cup {<<<<pair[1], Placeholder(pair[2])>>, <<pair[2], value>>>> :
                 pair \in KeyPairs, value \in Values}

\* The program's variables, which the pure functions leave alone.
program ==
    <<config, durable, perItem, perItemCalls, perRun, history, chain, pc, i, error>>

PureInit ==
    /\ Init
    /\ mode = "AD_GROUP"
    /\ target = TargetImages
    /\ stored = [id \in AdGroupIds |-> 0]

\* generateImageFileName is applied once; the second reading of the clock is
\* the first one or one millisecond later.
ApplyGenerateImageFileName ==
    /\ fileNameCall = NoCall /\ promptCall = NoCall
    /\ \E adGroupId \in FileNameIds, adGroupName \in Names, firstNow \in Times :
          \E secondNow \in {firstNow, Tick(firstNow)} :
             fileNameCall' =
                 [adGroupId |-> adGroupId,
                  adGroupName |-> adGroupName,
                  timestamp |-> TimeString(secondNow),
                  result |-> generateImageFileName(adGroupId, adGroupName,
                                                   firstNow, secondNow)]
    /\ promptCall' = NoCall
    /\ UNCHANGED program

\* createPrompt is applied once.
ApplyCreatePrompt ==
    /\ fileNameCall = NoCall /\ promptCall = NoCall
    /\ \E prompt \in Prompts, obj \in Objects :
          promptCall' = [prompt |-> prompt, obj |-> obj,
                         result |-> createPrompt(prompt, obj)]
    /\ fileNameCall' = NoCall
    /\ UNCHANGED program

PureNext ==
    \/ ApplyGenerateImageFileName
    \/ ApplyCreatePrompt

PureSpec == PureInit /\ [][PureNext]_vars

\* C12: generateImageFileName returns id|name|timestamp, of at most 128
\* characters and without any '/', where name is the name without its slashes
\* cut to 128 - len(timestamp) - len(id) - 2 characters.
C12_FileNameWithinLimit ==
    fileNameCall # NoCall =>
        LET id == Decimal(fileNameCall.adGroupId)
            timestamp == fileNameCall.timestamp
            name == Slice(StripSlashes(fileNameCall.adGroupName),
                          fileNameLimit - Len(timestamp) - Len(id) - extraChars)
        IN /\ fileNameCall.result = id \o <<"|">> \o name \o <<"|">> \o timestamp
           /\ Len(fileNameCall.result) <= fileNameLimit
           /\ "/" \notin Range(fileNameCall.result)

\* Every occurrence of searchString replaced by replaceValue as it stands.
RECURSIVE ReplaceVerbatimFrom(_, _, _, _)
ReplaceVerbatimFrom(str, searchString, replaceValue, p) ==
    IF p > Len(str) THEN <<>>
    ELSE IF MatchesAt(str, searchString, p)
         THEN replaceValue
                  \o ReplaceVerbatimFrom(str, searchString, replaceValue,
                                         p + Len(searchString))
         ELSE <<str[p]>> \o ReplaceVerbatimFrom(str, searchString, replaceValue, p + 1)

\* One pass per key, in the order of the mapping.
RECURSIVE InjectVerbatim(_, _)
InjectVerbatim(prompt, obj) ==
    IF obj = <<>> THEN prompt
    ELSE InjectVerbatim(
             ReplaceVerbatimFrom(prompt, Placeholder(obj[1][1]), obj[1][2], 1),
             Tail(obj))

\* C13: createPrompt returns the template with every ${key} replaced by
\* obj[key], one pass per key in the order of the mapping; placeholders of
\* other names stay as they are.
C13_PlaceholdersReplaced ==
    promptCall # NoCall =>
        promptCall.result = InjectVerbatim(promptCall.prompt, promptCall.obj)
====
